---- MODULE Spec2Model ----
(***************************************************************************)
(* Model of pyccuweather/connector.py: the Connection facade, its input    *)
(* validation, the shared request routine handle_request and the state it  *)
(* touches (each Connection's configuration, the two default-argument      *)
(* dictionaries of handle_request, the GETs issued).                       *)
(***************************************************************************)
EXTENDS Integers, Sequences, FiniteSets, TLC

(* ------------------------------------------------------------------ *)
(* Bounds                                                              *)
(* ------------------------------------------------------------------ *)
NumConns == 1
MaxGets == 2

Conns == 1..NumConns

(* ------------------------------------------------------------------ *)
(* Python values: a tag, a string content, a number.                   *)
(*   str      s = the characters                                       *)
(*   int/bool n = the value                                            *)
(*   float    n = the value in tenths (coordinates are tenths of a     *)
(*            degree)                                                  *)
(*   list     n = the number of elements                               *)
(*   Location n = the location key of the object                       *)
(* ------------------------------------------------------------------ *)
None == [t |-> "none", s |-> "", n |-> 0]
PyStr(x) == [t |-> "str", s |-> x, n |-> 0]
PyInt(k) == [t |-> "int", s |-> "", n |-> k]
PyFloat(k) == [t |-> "float", s |-> "", n |-> k]
PyBool(b) == [t |-> "bool", s |-> "", n |-> IF b THEN 1 ELSE 0]
PyList(k) == [t |-> "list", s |-> "", n |-> k]
PyLocation(k) == [t |-> "Location", s |-> "", n |-> k]

HasLen(v) == v.t \in {"str", "list"}
PyLen(v) == IF v.t = "str" THEN Len(v.s) ELSE v.n
IsNumeric(v) == v.t \in {"int", "float", "bool"}
IsInt(v) == v.t \in {"int", "bool"}
Abs(k) == IF k < 0 THEN 0 - k ELSE k
Truthy(v) ==
    CASE v.t = "none" -> FALSE
      [] v.t = "str" -> v.s # ""
      [] v.t \in {"int", "float", "bool", "list"} -> v.n # 0
      [] OTHER -> TRUE
IsTrue(v) == v.t = "bool" /\ v.n = 1
EqTrue(v) == IsNumeric(v) /\ v.n = (IF v.t = "float" THEN 10 ELSE 1)

Digit(d) == SubSeq("0123456789", d + 1, d + 1)
RECURSIVE NatStr(_)
NatStr(k) == IF k < 10 THEN Digit(k) ELSE NatStr(k \div 10) \o Digit(k % 10)
IntStr(k) == IF k < 0 THEN "-" \o NatStr(0 - k) ELSE NatStr(k)
Fmt4(k) == (IF k < 0 THEN "-" ELSE "") \o NatStr(Abs(k) \div 10) \o "."
           \o Digit(Abs(k) % 10) \o "000"

(* Dictionaries are functions from key strings to Python values. *)
EmptyDict == [k \in {} |-> None]
DictSet(d, k, v) == [x \in (DOMAIN d) \cup {k} |-> IF x = k THEN v ELSE d[x]]
Dict1(k, v) == DictSet(EmptyDict, k, v)
Dict2(k1, v1, k2, v2) == DictSet(Dict1(k1, v1), k2, v2)
DictGet(d, k) == IF k \in DOMAIN d THEN d[k] ELSE None

(* ------------------------------------------------------------------ *)
(* Program constants                                                   *)
(* ------------------------------------------------------------------ *)
API_TYPES == {"api", "apidev", "dataservice"}
DEFAULT_API_TYPE == "apidev"
DEVELOPER_PORTAL == "dataservice"
KEY_LENGTH == 32
COUNTRY_CODE_LENGTH == 2
MAX_LAT == 900
MAX_LON == 1800
CURRENT_HORIZONS == {0, 6, 24}
forecast_types == {"1h", "12h", "24h", "72h", "120h", "240h",
                   "1d", "5d", "10d", "15d", "25d", "45d"}

(* ------------------------------------------------------------------ *)
(* Inputs                                                              *)
(* ------------------------------------------------------------------ *)
KeyA == "0123456789abcdef0123456789abcdef"
Key31 == "0123456789abcdef0123456789abcde"
Key33 == "0123456789abcdef0123456789abcdef0"
EnvKey == "key-from-environment"

KeyArgs == {None, PyInt(32), PyList(32), PyStr(""), PyStr(Key31), PyStr(KeyA),
            PyStr(Key33)}
TypeArgs == {PyStr("apidev"), PyStr("production"), PyStr("dev"), None}
Environs == {None, PyStr(EnvKey)}
\* <<lat, lon>> in tenths of a degree, or a value that is not a number
GeoArgs == {<<PyFloat(900), PyFloat(1800)>>, <<PyFloat(-900), PyFloat(-1800)>>,
            <<PyFloat(901), PyFloat(0)>>, <<PyFloat(-901), PyFloat(1800)>>,
            <<PyFloat(900), PyFloat(1801)>>, <<PyFloat(0), PyFloat(-1801)>>,
            <<PyStr("x"), PyFloat(0)>>, <<PyFloat(0), None>>}
CountryCodes == {None, PyStr("U"), PyStr("US"), PyStr("USA"), PyInt(2)}

\* <<lkey, current>>
AirqualityArgs == {<<PyInt(1), PyBool(TRUE)>>, <<PyInt(1), PyBool(FALSE)>>,
                   <<PyStr("1a"), PyBool(TRUE)>>}
\* <<lkey, location, current>>
CurrentWxArgs == {<<None, None, PyInt(0)>>, <<PyInt(1), None, PyInt(0)>>,
                  <<None, PyLocation(2), PyInt(24)>>,
                  <<PyInt(1), PyLocation(2), PyInt(24)>>,
                  <<PyInt(1), None, PyInt(12)>>}
ForecastArgs == {PyStr("1h"), PyStr("10d"), PyStr("2h")}
StartDate == PyStr("2015-01-01")
EndDates == {None, PyStr("2015-01-31")}
Ranges == {PyInt(1), PyInt(7), PyStr("5")}
Responses == {[status |-> 200, body |-> "list"], [status |-> 200, body |-> "empty"],
              [status |-> 403, body |-> "dict"], [status |-> 500, body |-> "notjson"]}

(* ------------------------------------------------------------------ *)
(* State                                                               *)
(* ------------------------------------------------------------------ *)
VARIABLES
    environ,          \* os.environ["ACCUWEATHER_APIKEY"], None when unset
    conn,             \* the Connection objects
    default_fargs,    \* the default value of handle_request's fargs
    default_payload,  \* the default value of handle_request's payload
    gets,             \* number of requests.get calls made
    last              \* the last call made and how it ended

vars == <<environ, conn, default_fargs, default_payload, gets, last>>

NoConn == [alive |-> FALSE, API_KEY |-> None, api_type |-> "", API_ROOT |-> ""]
NoReq == [fkeyid |-> "", fargs |-> EmptyDict, params |-> EmptyDict]
NoCall == [conn |-> 0, method |-> "", args |-> EmptyDict, error |-> "",
           entered |-> FALSE, issued |-> FALSE, req |-> NoReq, status |-> 0,
           decoded |-> FALSE, body |-> "", result |-> "none"]

Init ==
    /\ environ \in Environs
    /\ conn = [c \in Conns |-> NoConn]
    /\ default_fargs = EmptyDict
    /\ default_payload = EmptyDict
    /\ gets = 0
    /\ last = NoCall

(* ------------------------------------------------------------------ *)
(* Connection.__init__ and wipe_api_key                                *)
(* ------------------------------------------------------------------ *)
\* __init__ that checks only the length of the key, not that it is a string
Connection_init_len_only(API_KEY, api_type) ==
    LET fromEnv == environ # None
        wellFormed == HasLen(API_KEY) /\ PyLen(API_KEY) = KEY_LENGTH
        ty == IF api_type.t = "str" /\ api_type.s \in API_TYPES
              THEN api_type.s ELSE "apidev"
    IN  IF ~fromEnv /\ ~wellFormed
        THEN [error |-> "MalformattedAPIKeyError", obj |-> NoConn]
        ELSE [error |-> "",
              obj |-> [alive |-> TRUE,
                       API_KEY |-> IF fromEnv THEN environ ELSE API_KEY,
                       api_type |-> ty,
                       API_ROOT |-> "http://" \o ty \o ".accuweather.com"]]

\* __init__ that keeps the api_type argument as given
Connection_init_keep_type(API_KEY, api_type) ==
    LET fromEnv == environ # None
        wellFormed == API_KEY.t = "str" /\ PyLen(API_KEY) = KEY_LENGTH
        ty == IF api_type.t = "str" THEN api_type.s ELSE "None"
    IN  IF ~fromEnv /\ ~wellFormed
        THEN [error |-> "MalformattedAPIKeyError", obj |-> NoConn]
        ELSE [error |-> "",
              obj |-> [alive |-> TRUE,
                       API_KEY |-> IF fromEnv THEN environ ELSE API_KEY,
                       api_type |-> ty,
                       API_ROOT |-> "http://" \o ty \o ".accuweather.com"]]

Connection_init(API_KEY, api_type) ==
    LET fromEnv == environ # None
        wellFormed == API_KEY.t = "str" /\ PyLen(API_KEY) = KEY_LENGTH
        ty == IF api_type.t = "str" /\ api_type.s \in API_TYPES
              THEN api_type.s ELSE "apidev"
    IN  IF ~fromEnv /\ ~wellFormed
        THEN [error |-> "MalformattedAPIKeyError", obj |-> NoConn]
        ELSE [error |-> "",
              obj |-> [alive |-> TRUE,
                       API_KEY |-> IF fromEnv THEN environ ELSE API_KEY,
                       api_type |-> ty,
                       API_ROOT |-> "http://" \o ty \o ".accuweather.com"]]

wipe_api_key(self) == [self EXCEPT !.API_KEY = None]

(* ------------------------------------------------------------------ *)
(* froot: the URL router (pyccuweather/froots.py)                      *)
(* ------------------------------------------------------------------ *)
TemplateTable ==
    {"loc_geoposition", "loc_search", "loc_search_country", "loc_postcode",
     "loc_ip_address", "loc_lkey", "currentconditions", "currentconditions_6",
     "currentconditions_24", "airquality_current", "airquality_yesterday",
     "climo_actuals_range", "climo_actuals_date", "climo_records_range",
     "climo_records_date", "climo_normals_range", "climo_normals_date",
     "alarms_1d", "alarms_5d", "alarms_10d", "alarms_15d", "alarms_25d"}
    \cup {"forecast_" \o ft : ft \in forecast_types}

froot(fkeyid, fargs) ==
    [ok |-> fkeyid \in TemplateTable, fkeyid |-> fkeyid, fargs |-> fargs]

(* ------------------------------------------------------------------ *)
(* handle_request                                                      *)
(* omitF / omitP: the caller passed no fargs / payload, so the         *)
(* parameter is bound to the function's default dictionary.            *)
(* ------------------------------------------------------------------ *)
Rejected(err) ==
    [dfargs |-> default_fargs, dpayload |-> default_payload, error |-> err,
     entered |-> FALSE, issued |-> FALSE, req |-> NoReq, status |-> 0,
     decoded |-> FALSE, body |-> "", result |-> "none"]

\* handle_request that keeps an apikey already present in payload (setdefault)
handle_request_setdefault(c, fkeyid, omitF, fargsArg, omitP, payloadArg, resp) ==
    LET fargs == DictSet(IF omitF THEN default_fargs ELSE fargsArg,
                         "api_type", PyStr(conn[c].api_type))
        url == froot(fkeyid, fargs)
        given == IF omitP THEN default_payload ELSE payloadArg
        payload == IF "apikey" \in DOMAIN given THEN given
                   ELSE DictSet(given, "apikey", conn[c].API_KEY)
        atUrl == [Rejected("TemplateNotFoundError") EXCEPT
                     !.dfargs = IF omitF THEN fargs ELSE default_fargs,
                     !.entered = TRUE]
        atGet == [atUrl EXCEPT
                     !.dpayload = IF omitP THEN payload ELSE default_payload,
                     !.issued = TRUE,
                     !.req = [fkeyid |-> url.fkeyid, fargs |-> url.fargs,
                              params |-> payload],
                     !.status = resp.status]
    IN  IF ~url.ok THEN atUrl
        ELSE IF resp.status = 403
             THEN [atGet EXCEPT !.error = "UnauthorisedError"]
        ELSE IF resp.body = "notjson"
             THEN [atGet EXCEPT !.error = "JSONDecodeError"]
        ELSE [atGet EXCEPT !.error = "", !.decoded = TRUE,
                           !.body = resp.body, !.result = "json"]

\* handle_request that tests for status 401 instead of 403
handle_request_401(c, fkeyid, omitF, fargsArg, omitP, payloadArg, resp) ==
    LET fargs == DictSet(IF omitF THEN default_fargs ELSE fargsArg,
                         "api_type", PyStr(conn[c].api_type))
        url == froot(fkeyid, fargs)
        payload == DictSet(IF omitP THEN default_payload ELSE payloadArg,
                           "apikey", conn[c].API_KEY)
        atUrl == [Rejected("TemplateNotFoundError") EXCEPT
                     !.dfargs = IF omitF THEN fargs ELSE default_fargs,
                     !.entered = TRUE]
        atGet == [atUrl EXCEPT
                     !.dpayload = IF omitP THEN payload ELSE default_payload,
                     !.issued = TRUE,
                     !.req = [fkeyid |-> url.fkeyid, fargs |-> url.fargs,
                              params |-> payload],
                     !.status = resp.status]
    IN  IF ~url.ok THEN atUrl
        ELSE IF resp.status = 401
             THEN [atGet EXCEPT !.error = "UnauthorisedError"]
        ELSE IF resp.body = "notjson"
             THEN [atGet EXCEPT !.error = "JSONDecodeError"]
        ELSE [atGet EXCEPT !.error = "", !.decoded = TRUE,
                           !.body = resp.body, !.result = "json"]

handle_request(c, fkeyid, omitF, fargsArg, omitP, payloadArg, resp) ==
    LET fargs == DictSet(IF omitF THEN default_fargs ELSE fargsArg,
                         "api_type", PyStr(conn[c].api_type))
        url == froot(fkeyid, fargs)
        payload == DictSet(IF omitP THEN default_payload ELSE payloadArg,
                           "apikey", conn[c].API_KEY)
        atUrl == [Rejected("TemplateNotFoundError") EXCEPT
                     !.dfargs = IF omitF THEN fargs ELSE default_fargs,
                     !.entered = TRUE]
        atGet == [atUrl EXCEPT
                     !.dpayload = IF omitP THEN payload ELSE default_payload,
                     !.issued = TRUE,
                     !.req = [fkeyid |-> url.fkeyid, fargs |-> url.fargs,
                              params |-> payload],
                     !.status = resp.status]
    IN  IF ~url.ok THEN atUrl
        ELSE IF resp.status = 403
             THEN [atGet EXCEPT !.error = "UnauthorisedError"]
        ELSE IF resp.body = "notjson"
             THEN [atGet EXCEPT !.error = "JSONDecodeError"]
        ELSE [atGet EXCEPT !.error = "", !.decoded = TRUE,
                           !.body = resp.body, !.result = "json"]

(* ------------------------------------------------------------------ *)
(* Location resolvers                                                  *)
(* ------------------------------------------------------------------ *)
\* assert len(resp) > 0, then Location(resp[0]) or Location(resp)
SingleLocation(r) ==
    IF r.error # "" THEN r
    ELSE IF r.body = "empty"
         THEN [r EXCEPT !.error = "AssertionError", !.result = "none"]
    ELSE [r EXCEPT !.result = "Location"]

\* loc_geoposition with strict bounds (< in place of <=)
loc_geoposition_strict(c, lat, lon, resp) ==
    IF ~(IsNumeric(lat) /\ IsNumeric(lon)) THEN Rejected("ValueError")
    ELSE IF ~(Abs(lat.n) < MAX_LAT /\ Abs(lon.n) < MAX_LON)
         THEN Rejected("RangeError")
    ELSE SingleLocation(
             handle_request(c, "loc_geoposition", TRUE, EmptyDict, FALSE,
                 Dict1("q", PyStr(Fmt4(lat.n) \o "," \o Fmt4(lon.n))), resp))

loc_geoposition(c, lat, lon, resp) ==
    IF ~(IsNumeric(lat) /\ IsNumeric(lon)) THEN Rejected("ValueError")
    ELSE IF ~(Abs(lat.n) <= MAX_LAT /\ Abs(lon.n) <= MAX_LON)
         THEN Rejected("RangeError")
    ELSE SingleLocation(
             handle_request(c, "loc_geoposition", TRUE, EmptyDict, FALSE,
                 Dict1("q", PyStr(Fmt4(lat.n) \o "," \o Fmt4(lon.n))), resp))

loc_string(c, search_string, country_code, resp) ==
    IF country_code # None
          /\ ~(HasLen(country_code) /\ PyLen(country_code) = COUNTRY_CODE_LENGTH)
    THEN Rejected("InvalidCountryCodeError")
    ELSE LET r == IF country_code # None
                  THEN handle_request(c, "loc_search_country", FALSE,
                           Dict1("country_code", country_code), FALSE,
                           Dict1("q", search_string), resp)
                  ELSE handle_request(c, "loc_search", FALSE, EmptyDict, FALSE,
                           Dict1("q", search_string), resp)
         IN  IF r.error # "" THEN r
             ELSE IF r.body = "empty"
                  THEN [r EXCEPT !.error = "NoResultsError", !.result = "none"]
             ELSE IF r.body = "dict"
                  THEN [r EXCEPT !.error = "TypeError", !.result = "none"]
             ELSE [r EXCEPT !.result = "LocationSet"]

\* loc_postcode that accepts any country code of at least two characters
loc_postcode_atleast(c, country_code, postcode, resp) ==
    IF ~(HasLen(country_code) /\ PyLen(country_code) >= COUNTRY_CODE_LENGTH)
    THEN Rejected("InvalidCountryCodeError")
    ELSE SingleLocation(
             handle_request(c, "loc_postcode", FALSE,
                 Dict1("country_code", country_code), FALSE,
                 Dict1("q", postcode), resp))

loc_postcode(c, country_code, postcode, resp) ==
    IF ~(HasLen(country_code) /\ PyLen(country_code) = COUNTRY_CODE_LENGTH)
    THEN Rejected("InvalidCountryCodeError")
    ELSE SingleLocation(
             handle_request(c, "loc_postcode", FALSE,
                 Dict1("country_code", country_code), FALSE,
                 Dict1("q", postcode), resp))

loc_ip(c, ip_address, resp) ==
    SingleLocation(
        handle_request(c, "loc_ip_address", TRUE, EmptyDict, FALSE,
            Dict1("q", ip_address), resp))

loc_lkey(c, lkey, resp) ==
    SingleLocation(
        handle_request(c, "loc_lkey", FALSE, Dict1("location_key", lkey),
            TRUE, EmptyDict, resp))

(* ------------------------------------------------------------------ *)
(* Current conditions, forecasts, air quality                          *)
(* ------------------------------------------------------------------ *)
Typed(r, kind) == IF r.error # "" THEN r ELSE [r EXCEPT !.result = kind]

get_current_wx(c, lkey, location, current, details, resp) ==
    IF ~(IsNumeric(current) /\ current.n \in CURRENT_HORIZONS)
    THEN Rejected("AssertionError")
    ELSE IF ~(lkey # None \/ location # None) THEN Rejected("AssertionError")
    ELSE Typed(handle_request(c,
                   IF current.n = 0 THEN "currentconditions"
                   ELSE "currentconditions_" \o IntStr(current.n),
                   FALSE, Dict1("location_key", lkey), FALSE,
                   Dict1("details",
                         PyStr(IF IsTrue(details) THEN "true" ELSE "false")),
                   resp),
               "CurrentObs")

get_forecast(c, forecast_type, lkey, details, metric, resp) ==
    IF ~(forecast_type.t = "str" /\ forecast_type.s \in forecast_types)
    THEN Rejected("AssertionError")
    ELSE Typed(handle_request(c, "forecast_" \o forecast_type.s,
                   FALSE, Dict1("location_key", lkey), FALSE,
                   Dict2("details",
                         PyStr(IF EqTrue(details) THEN "true" ELSE "false"),
                         "metric",
                         PyStr(IF EqTrue(metric) THEN "true" ELSE "false")),
                   resp),
               IF SubSeq(forecast_type.s, Len(forecast_type.s),
                         Len(forecast_type.s)) = "h"
               THEN "HourlyForecasts" ELSE "DailyForecasts")

\* get_airquality without the isinstance assertion
get_airquality_unchecked(c, lkey, current, resp) ==
    handle_request(c,
        IF Truthy(current) THEN "airquality_current"
        ELSE "airquality_yesterday",
        FALSE, Dict1("location_key", lkey), TRUE, EmptyDict, resp)

get_airquality(c, lkey, current, resp) ==
    IF ~IsInt(lkey) THEN Rejected("AssertionError")
    ELSE handle_request(c,
             IF Truthy(current) THEN "airquality_current"
             ELSE "airquality_yesterday",
             FALSE, Dict1("location_key", lkey), TRUE, EmptyDict, resp)

(* ------------------------------------------------------------------ *)
(* Climo and alerts                                                    *)
(* ------------------------------------------------------------------ *)
get_actuals(c, lkey, start_date, end_date, resp) ==
    IF Truthy(end_date)
    THEN handle_request(c, "climo_actuals_range", FALSE,
             Dict1("location_key", lkey), FALSE,
             Dict2("start", start_date, "end", end_date), resp)
    ELSE Rejected("UnboundLocalError")   \* payload is not bound on this path

get_records(c, lkey, start_date, end_date, resp) ==
    IF Truthy(end_date)
    THEN handle_request(c, "climo_records_range", FALSE,
             Dict1("location_key", lkey), FALSE,
             Dict2("start", start_date, "end", end_date), resp)
    ELSE handle_request(c, "climo_records_date", FALSE,
             Dict1("location_key", lkey), FALSE,
             Dict1("start", start_date), resp)

get_normals(c, lkey, start_date, end_date, resp) ==
    IF Truthy(end_date)
    THEN handle_request(c, "climo_normals_range", FALSE,
             Dict1("location_key", lkey), FALSE,
             Dict2("start", start_date, "end", end_date), resp)
    ELSE handle_request(c, "climo_normals_date", FALSE,
             Dict1("location_key", lkey), FALSE,
             Dict1("start", start_date), resp)

get_alerts(c, lkey, forecast_range, resp) ==
    IF ~IsInt(forecast_range) THEN Rejected("AssertionError")
    ELSE handle_request(c, "alarms_" \o IntStr(forecast_range.n) \o "d",
             FALSE, Dict1("location_key", lkey), TRUE, EmptyDict, resp)

(* ------------------------------------------------------------------ *)
(* Actions: one per public operation                                   *)
(* ------------------------------------------------------------------ *)
Call(c, method, args, r) ==
    /\ conn[c].alive
    /\ gets < MaxGets
    /\ default_fargs' = r.dfargs
    /\ default_payload' = r.dpayload
    /\ gets' = gets + (IF r.issued THEN 1 ELSE 0)
    /\ last' = [conn |-> c, method |-> method, args |-> args,
                error |-> r.error, entered |-> r.entered, issued |-> r.issued,
                req |-> r.req, status |-> r.status, decoded |-> r.decoded,
                body |-> r.body, result |-> r.result]
    /\ UNCHANGED <<environ, conn>>

Construct ==
    \E c \in Conns, k \in KeyArgs, ty \in TypeArgs :
        /\ ~conn[c].alive
        /\ \A d \in Conns : d < c => conn[d].alive
        /\ LET r == Connection_init(k, ty)
           IN  /\ conn' = [conn EXCEPT ![c] = r.obj]
               /\ last' = [NoCall EXCEPT !.conn = c, !.method = "__init__",
                              !.args = Dict2("API_KEY", k, "api_type", ty),
                              !.error = r.error]
        /\ UNCHANGED <<environ, default_fargs, default_payload, gets>>

WipeApiKey ==
    \E c \in Conns :
        /\ conn[c].alive
        /\ conn' = [conn EXCEPT ![c] = wipe_api_key(conn[c])]
        /\ last' = [NoCall EXCEPT !.conn = c, !.method = "wipe_api_key"]
        /\ UNCHANGED <<environ, default_fargs, default_payload, gets>>

LocGeoposition ==
    \E c \in Conns, g \in GeoArgs, resp \in Responses :
        Call(c, "loc_geoposition", Dict2("lat", g[1], "lon", g[2]),
             loc_geoposition(c, g[1], g[2], resp))

LocString ==
    \E c \in Conns, cc \in CountryCodes, resp \in Responses :
        Call(c, "loc_string",
             Dict2("search_string", PyStr("Paris"), "country_code", cc),
             loc_string(c, PyStr("Paris"), cc, resp))

LocPostcode ==
    \E c \in Conns, cc \in CountryCodes, resp \in Responses :
        Call(c, "loc_postcode",
             Dict2("country_code", cc, "postcode", PyStr("90210")),
             loc_postcode(c, cc, PyStr("90210"), resp))

LocIp ==
    \E c \in Conns, resp \in Responses :
        Call(c, "loc_ip", Dict1("ip_address", PyStr("8.8.8.8")),
             loc_ip(c, PyStr("8.8.8.8"), resp))

LocLkey ==
    \E c \in Conns, resp \in Responses :
        Call(c, "loc_lkey", Dict1("lkey", PyInt(1)), loc_lkey(c, PyInt(1), resp))

GetCurrentWx ==
    \E c \in Conns, a \in CurrentWxArgs, resp \in Responses :
        Call(c, "get_current_wx",
             [lkey |-> a[1], location |-> a[2], current |-> a[3],
              details |-> PyBool(TRUE)],
             get_current_wx(c, a[1], a[2], a[3], PyBool(TRUE), resp))

GetForecast ==
    \E c \in Conns, ft \in ForecastArgs, resp \in Responses :
        Call(c, "get_forecast",
             [forecast_type |-> ft, lkey |-> PyInt(1),
              details |-> PyBool(FALSE), metric |-> PyBool(TRUE)],
             get_forecast(c, ft, PyInt(1), PyBool(FALSE), PyBool(TRUE), resp))

GetAirquality ==
    \E c \in Conns, a \in AirqualityArgs, resp \in Responses :
        Call(c, "get_airquality", Dict2("lkey", a[1], "current", a[2]),
             get_airquality(c, a[1], a[2], resp))

GetActuals ==
    \E c \in Conns, end_date \in EndDates, resp \in Responses :
        Call(c, "get_actuals",
             [lkey |-> PyInt(1), start_date |-> StartDate,
              end_date |-> end_date],
             get_actuals(c, PyInt(1), StartDate, end_date, resp))

GetRecords ==
    \E c \in Conns, end_date \in EndDates, resp \in Responses :
        Call(c, "get_records",
             [lkey |-> PyInt(1), start_date |-> StartDate,
              end_date |-> end_date],
             get_records(c, PyInt(1), StartDate, end_date, resp))

GetNormals ==
    \E c \in Conns, end_date \in EndDates, resp \in Responses :
        Call(c, "get_normals",
             [lkey |-> PyInt(1), start_date |-> StartDate,
              end_date |-> end_date],
             get_normals(c, PyInt(1), StartDate, end_date, resp))

GetAlerts ==
    \E c \in Conns, fr \in Ranges, resp \in Responses :
        Call(c, "get_alerts",
             Dict2("lkey", PyInt(1), "forecast_range", fr),
             get_alerts(c, PyInt(1), fr, resp))

Next ==
    \/ Construct
    \/ WipeApiKey
    \/ LocGeoposition
    \/ LocString
    \/ LocPostcode
    \/ LocIp
    \/ LocLkey
    \/ GetCurrentWx
    \/ GetForecast
    \/ GetAirquality
    \/ GetActuals
    \/ GetRecords
    \/ GetNormals
    \/ GetAlerts

Spec == Init /\ [][Next]_vars

(* ------------------------------------------------------------------ *)
(* Properties                                                          *)
(* ------------------------------------------------------------------ *)

\* C1: with ACCUWEATHER_APIKEY unset, construction fails with
\* MalformattedAPIKeyError and produces no Connection for every API_KEY that
\* is not a string of exactly 32 characters, and succeeds and stores the
\* argument for every 32-character string.
C1_KeyValidation ==
    (environ = None /\ last.method = "__init__") =>
        LET k == last.args["API_KEY"]
        IN  IF k.t = "str" /\ Len(k.s) = 32
            THEN /\ last.error = ""
                 /\ conn[last.conn].alive
                 /\ conn[last.conn].API_KEY = k
            ELSE /\ last.error = "MalformattedAPIKeyError"
                 /\ ~conn[last.conn].alive

C1_Witness ==
    /\ environ = None
    /\ last.method = "__init__"
    /\ last.args["API_KEY"] = PyStr(Key33)
    /\ last.error = "MalformattedAPIKeyError"
    /\ ~conn[last.conn].alive

Unrecognized(v) == ~(v.t = "str" /\ v.s \in {"api", "apidev", "dataservice"})
KeyAccepted(k) == environ # None \/ (k.t = "str" /\ Len(k.s) = 32)

\* C2 as stated: an unrecognized api_type leaves construction succeeding
\* with the developer-portal variant (dataservice) and its root URL.
C2_Original ==
    (/\ last.method = "__init__"
     /\ Unrecognized(last.args["api_type"])
     /\ KeyAccepted(last.args["API_KEY"])) =>
        /\ last.error = ""
        /\ conn[last.conn].alive
        /\ conn[last.conn].api_type = DEVELOPER_PORTAL
        /\ conn[last.conn].API_ROOT = "http://dataservice.accuweather.com"

\* C2 amended: an unrecognized api_type never fails construction (given an
\* accepted key); the Connection's variant is the constructor's default
\* 'apidev' and its root URL is http://apidev.accuweather.com.
C2_FallbackApidev ==
    (/\ last.method = "__init__"
     /\ Unrecognized(last.args["api_type"])
     /\ KeyAccepted(last.args["API_KEY"])) =>
        /\ last.error = ""
        /\ conn[last.conn].alive
        /\ conn[last.conn].api_type = DEFAULT_API_TYPE
        /\ conn[last.conn].API_ROOT = "http://apidev.accuweather.com"

C2_Witness ==
    /\ last.method = "__init__"
    /\ last.args["api_type"] = PyStr("production")
    /\ last.error = ""
    /\ conn[last.conn].api_type = "apidev"

\* C3: get_current_wx with a valid horizon rejects a call with neither or
\* both of lkey and location before any request, and for a call with
\* exactly one of them builds the request for the location it identifies.
C3_ExactlyOne ==
    (/\ last.method = "get_current_wx"
     /\ last.args["current"].n \in {0, 6, 24}) =>
        LET lkey == last.args["lkey"]
            location == last.args["location"]
        IN  IF (lkey # None) = (location # None)
            THEN last.error # "" /\ ~last.entered /\ ~last.issued
            ELSE /\ last.issued
                 /\ DictGet(last.req.fargs, "location_key")
                        = (IF lkey # None THEN lkey ELSE PyInt(location.n))

\* C4: wipe_api_key never fails and sets the key to None; a key that is None
\* stays None through every later call; every request issued by a wiped
\* Connection carries None as its apikey parameter.
C4_Step ==
    \A c \in Conns :
        /\ (conn[c].alive /\ conn[c].API_KEY = None)
              => (conn'[c].alive /\ conn'[c].API_KEY = None)
        /\ (last'.method = "wipe_api_key" /\ last'.conn = c)
              => (last'.error = "" /\ conn'[c].API_KEY = None)
        /\ (conn[c].alive /\ conn[c].API_KEY = None
               /\ last'.conn = c /\ last'.issued)
              => (/\ "apikey" \in DOMAIN last'.req.params
                  /\ last'.req.params["apikey"] = None)
C4_WipedStaysWiped == [][C4_Step]_vars

C4_Witness ==
    /\ last.method = "loc_lkey"
    /\ last.issued
    /\ gets = 2
    /\ conn[last.conn].API_KEY = None
    /\ last.req.params["apikey"] = None

\* The calls that the methods' input validation rejects, stated on the
\* arguments alone.
InvalidInput(l) ==
    \/ /\ l.method = "get_current_wx"
       /\ \/ ~(l.args["current"].t = "int" /\ l.args["current"].n \in {0, 6, 24})
          \/ (l.args["lkey"] = None /\ l.args["location"] = None)
    \/ /\ l.method = "get_forecast"
       /\ ~(l.args["forecast_type"].t = "str"
            /\ l.args["forecast_type"].s \in
                 {"1h", "12h", "24h", "72h", "120h", "240h",
                  "1d", "5d", "10d", "15d", "25d", "45d"})
    \/ /\ l.method = "get_airquality"
       /\ l.args["lkey"].t \notin {"int", "bool"}
    \/ /\ l.method = "get_alerts"
       /\ l.args["forecast_range"].t \notin {"int", "bool"}
    \/ /\ l.method = "loc_geoposition"
       /\ \/ l.args["lat"].t \notin {"int", "float", "bool"}
          \/ l.args["lon"].t \notin {"int", "float", "bool"}
          \/ Abs(l.args["lat"].n) > 900
          \/ Abs(l.args["lon"].n) > 1800
    \/ /\ l.method = "loc_string"
       /\ l.args["country_code"] # None
       /\ ~(HasLen(l.args["country_code"]) /\ PyLen(l.args["country_code"]) = 2)
    \/ /\ l.method = "loc_postcode"
       /\ ~(HasLen(l.args["country_code"]) /\ PyLen(l.args["country_code"]) = 2)

\* C5: a call that fails input validation raises before handle_request is
\* entered and issues no GET: the count of GETs is unchanged by it.
C5_RejectedIssuesNothing ==
    [][InvalidInput(last') =>
          (/\ last'.error # ""
           /\ ~last'.entered
           /\ ~last'.issued
           /\ gets' = gets)]_vars

C5_Witness ==
    /\ last.method = "get_airquality"
    /\ last.args["lkey"] = PyStr("1a")
    /\ last.error = "AssertionError"
    /\ ~last.entered
    /\ gets = 1

\* C6: loc_geoposition fails with ValueError for non-numeric lat or lon and
\* with RangeError for |lat| > 90 or |lon| > 180, both without a request;
\* for |lat| <= 90 and |lon| <= 180 it issues exactly the loc_geoposition
\* request.
C6_Geoposition ==
    [][last'.method = "loc_geoposition" =>
          LET lat == last'.args["lat"]
              lon == last'.args["lon"]
          IN  IF lat.t \notin {"int", "float", "bool"}
                    \/ lon.t \notin {"int", "float", "bool"}
              THEN last'.error = "ValueError" /\ ~last'.entered
                   /\ ~last'.issued /\ gets' = gets
              ELSE IF Abs(lat.n) > 900 \/ Abs(lon.n) > 1800
              THEN last'.error = "RangeError" /\ ~last'.entered
                   /\ ~last'.issued /\ gets' = gets
              ELSE last'.issued /\ gets' = gets + 1
                   /\ last'.req.fkeyid = "loc_geoposition"]_vars

C6_Witness ==
    /\ last.method = "loc_geoposition"
    /\ last.args["lat"] = PyFloat(-900)
    /\ last.args["lon"] = PyFloat(-1800)
    /\ last.issued
    /\ last.req.fkeyid = "loc_geoposition"
    /\ last.req.params["q"] = PyStr("-90.0000,-180.0000")

\* C7: a country code whose length is not 2 makes loc_postcode and
\* loc_string fail with InvalidCountryCodeError without a request; a
\* 2-character code selects loc_search_country resp. loc_postcode with the
\* code as the country_code URL argument; loc_string without a country code
\* selects loc_search.
C7_CountryCode ==
    [][last'.method \in {"loc_string", "loc_postcode"} =>
          LET cc == last'.args["country_code"]
          IN  IF last'.method = "loc_string" /\ cc = None
              THEN last'.issued /\ last'.req.fkeyid = "loc_search"
              ELSE IF ~(HasLen(cc) /\ PyLen(cc) = 2)
              THEN last'.error = "InvalidCountryCodeError"
                   /\ ~last'.issued /\ gets' = gets
              ELSE /\ last'.issued
                   /\ last'.req.fkeyid =
                        (IF last'.method = "loc_string"
                         THEN "loc_search_country" ELSE "loc_postcode")
                   /\ "country_code" \in DOMAIN last'.req.fargs
                   /\ last'.req.fargs["country_code"] = cc]_vars

C7_Witness ==
    /\ last.method = "loc_postcode"
    /\ last.args["country_code"] = PyStr("USA")
    /\ last.error = "InvalidCountryCodeError"
    /\ ~last.issued

\* C8: a request answered with HTTP 403 ends the call with
\* UnauthorisedError: the body is not decoded and nothing is returned.
C8_Unauthorised ==
    (last.issued /\ last.status = 403) =>
        /\ last.error = "UnauthorisedError"
        /\ ~last.decoded
        /\ last.result = "none"

C8_Witness ==
    /\ last.method = "get_alerts"
    /\ last.issued
    /\ last.status = 403
    /\ last.error = "UnauthorisedError"

\* C9: get_actuals, get_records and get_normals issue exactly one request:
\* climo_*_range with start and end when an end date is given, climo_*_date
\* with the start date when it is not; a decodable answer other than 403 is
\* returned as raw JSON.
ClimoName(m) ==
    CASE m = "get_actuals" -> "actuals"
      [] m = "get_records" -> "records"
      [] m = "get_normals" -> "normals"
Carries(req, v) ==
    \/ \E k \in DOMAIN req.params : req.params[k] = v
    \/ \E k \in DOMAIN req.fargs : req.fargs[k] = v
C9_Climo ==
    [][last'.method \in {"get_actuals", "get_records", "get_normals"} =>
          LET start == last'.args["start_date"]
              end == last'.args["end_date"]
          IN  /\ last'.issued
              /\ gets' = gets + 1
              /\ IF Truthy(end)
                 THEN /\ last'.req.fkeyid
                           = "climo_" \o ClimoName(last'.method) \o "_range"
                      /\ Carries(last'.req, start)
                      /\ Carries(last'.req, end)
                 ELSE /\ last'.req.fkeyid
                           = "climo_" \o ClimoName(last'.method) \o "_date"
                      /\ Carries(last'.req, start)
              /\ \/ last'.error \in {"UnauthorisedError", "JSONDecodeError"}
                 \/ last'.error = "" /\ last'.decoded /\ last'.result = "json"]_vars

\* C10: no call leaves data behind outside the Connections' own
\* configuration: the default fargs and payload dictionaries of
\* handle_request stay empty.
C10_NoSharedState ==
    /\ default_fargs = EmptyDict
    /\ default_payload = EmptyDict

====
